---------------------------- MODULE Spec2Model ----------------------------
(***************************************************************************)
(* A model of the coding-assessment platform: the submission pipeline      *)
(* (submit_code -> run_tests_on_code -> persisted Submission -> enrichment *)
(* thread), the model-selection wrapper GeminiWrapper, and the source      *)
(* sanitizer _extract_functions_and_imports.                               *)
(*                                                                         *)
(* Six specifications share the variables:                                 *)
(*   Spec          the submission pipeline (api.py and ai_grader.py)       *)
(*   WrapperSpec   GeminiWrapper.generate_content called by several threads*)
(*   SanitizerSpec _extract_functions_and_imports on bounded source texts  *)
(*   ScriptSpec    run_script of manual_fix_runner.py and utils/logic.py   *)
(*   EducatorSpec  educator_create_test and the generators it calls        *)
(*   LogSpec       the error-log flow of utils/logic.py and the command    *)
(*                 line tool manual_fix_runner.py                          *)
(***************************************************************************)
EXTENDS Integers, Sequences, FiniteSets, TLC

VARIABLES
    \* ---- submission pipeline ----
    handler,        \* which submit_code runs the request: "api" | "ai_grader"
    pc,             \* position of the request thread
    exception,      \* the exception that left the handler unhandled, or "None"
    temp_files,     \* paths that exist under the call's TemporaryDirectory
    hangs,          \* whether the pytest subprocess never terminates
    output,         \* result.stdout + result.stderr, a sequence of lines
    test_results,   \* the dict run_tests_on_code returned, or NoResult
    submission,     \* the Submission document in submissions_collection, or NoDoc
    apc,            \* position of the enrichment thread _async_ai
    \* ---- GeminiWrapper ----
    api_key,        \* the key the wrapper was constructed with
    disabled,       \* GeminiWrapper._disabled
    active_model,   \* GeminiWrapper._active_model, None or a model id
    tpc,            \* per calling thread: position inside generate_content
    model_idx,      \* per thread: index into MODEL_CANDIDATES of the for loop
    last_error,     \* per thread: the local last_error
    requested,      \* per thread: the model ids this call has sent a request to
    outcome,        \* per thread: what the call returned or raised
    pins,           \* every assignment made to _active_model, in order
    pins_at_start,  \* per thread: Len(pins) when its current call started
    \* ---- sanitizer ----
    source_code,    \* the submitted text given to the sanitizer
    sanitized,      \* what _extract_functions_and_imports returned, or NotRun
    fell_back,      \* whether the except branch produced the result
    \* ---- run_script ----
    rs_module,      \* whose run_script is called: "manual_fix_runner" | "logic"
    rs_pc,          \* position of the call
    rs_proc,        \* the child process: how long it runs and what it writes
    rs_result,      \* the value run_script returned, or NoValue
    rs_exception,   \* the exception run_script raised, or "None"
    \* ---- educator_create_test and the generators ----
    tests_collection, \* the ProblemSpecs persisted, in insertion order
    epc,            \* per request: position inside educator_create_test
    form,           \* per request: the handler serving it and the form fields
    best_question,  \* per request: the local best_question
    calls_raised,   \* per request: every model call made so far has raised
    eexception,     \* per request: the exception that ended it, or "None"
    app,            \* which application is deployed: "api" | "ai_grader"
    configured,     \* whether utils/ai_grader.py's _MODEL was set at import
    call,           \* a direct call of a generator and its result, or NoCall
    \* ---- the error-log flow ----
    log,            \* the one document of the logs collection, or NoLog
    issued,         \* whether insert_one has handed out the id "a1"
    chk,            \* the check_fix_logic call between find_one and update_one
    cfm,            \* the confirm_delete_logic call between find_one and its write
    ret,            \* the last completed call and what it returned
    verified_code   \* the code the last positive verification ran, or None

pvars == <<handler, pc, exception, temp_files, hangs, output, test_results,
           submission, apc>>
wvars == <<api_key, disabled, active_model, tpc, model_idx, last_error,
           requested, outcome, pins, pins_at_start>>
svars == <<source_code, sanitized, fell_back>>
rvars == <<rs_module, rs_pc, rs_proc, rs_result, rs_exception>>
evars == <<tests_collection, epc, form, best_question, calls_raised,
           eexception, app, configured, call>>
lvars == <<log, issued, chk, cfm, ret, verified_code>>
xvars == <<rvars, evars, lvars>>
vars  == <<pvars, wvars, svars, xvars>>

None     == "None"
NoResult == [none |-> TRUE]
NoDoc    == [none |-> TRUE]
NotRun   == <<[kind |-> "<not run>", deep |-> FALSE]>>

\* ------------------------------------------------------------------------
\* Bounds
\* ------------------------------------------------------------------------
MaxLines   == 2     \* lines of subprocess output
NumThreads == 2     \* threads calling generate_content concurrently
MaxStmts   == 3     \* top-level statements of a submitted source text


\* ------------------------------------------------------------------------
\* Text of the subprocess output.  A line is a sequence of whitespace-
\* separated tokens; a token is a string.  The facts about a token that the
\* regular expressions of run_tests_on_code read are tabulated below.
\* ------------------------------------------------------------------------
Keywords == {"passed", "failed", "error"}

\* kw occurs somewhere inside tok  ("passed" in summary_line, re.search of
\* the bare alternation)
HasSubstring(tok, kw) ==
    \/ tok = kw
    \/ tok = "errors"  /\ kw = "error"
    \/ tok = "test_error" /\ kw = "error"
    \/ tok = "xfailed" /\ kw = "failed"
    \/ tok = "xpassed" /\ kw = "passed"

\* tok begins with kw  (what \s+passed needs right after the white space)
HasPrefix(tok, kw) ==
    \/ tok = kw
    \/ tok = "errors" /\ kw = "error"

\* tok is a run of decimal digits  (\d+)
IsDigits(tok) == tok \in {"0", "1", "2", "3", "29999"}

\* int(...) of a run of digits
IntOf(tok) ==
    CASE tok = "0" -> 0
      [] tok = "1" -> 1
      [] tok = "2" -> 2
      [] tok = "3" -> 3
      [] tok = "29999" -> 29999
      [] OTHER     -> 0

\* Lines the subprocess may print: pytest -q summaries, summaries with
\* several categories, keyword lines without a count, marker lines.
Lines == {
    <<>>,
    <<"no", "tests", "ran">>,
    <<"1", "passed">>,
    <<"2", "passed">>,
    <<"3", "passed">>,
    <<"1", "failed">>,
    <<"1", "error">>,
    <<"2", "errors">>,
    <<"1", "failed", "1", "passed">>,
    <<"2", "failed", "3", "passed">>,
    <<"3", "passed", "2", "failed">>,
    <<"29999", "passed", "1", "failed">>,
    <<"1", "passed", "1", "error">>,
    <<"1", "failed", "1", "passed", "1", "error">>,
    <<"0", "passed">>,
    <<"passed">>,
    <<"failed">>,
    <<"error">>,
    <<"passed", "1">>,
    <<"1", "test", "passed">>,
    <<"1", "passed", "1", "xfailed">>,
    <<"1", "xpassed">>,
    <<"FAILED", "test_a">>,
    <<"FAILED", "test_error">>,
    <<"PASSED", "test_b">>,
    <<"test_c", "FAILED">>
}

RECURSIVE SeqsUpTo(_, _)
SeqsUpTo(S, n) ==
    IF n = 0 THEN {<<>>}
    ELSE LET shorter == SeqsUpTo(S, n - 1)
         IN  shorter \cup {Append(q, x) : q \in {r \in shorter : Len(r) = n - 1}, x \in S}

Outputs == SeqsUpTo(Lines, MaxLines)

MatchesPassed(line) ==
    \E i \in 1..Len(line) : HasSubstring(line[i], "passed")
\* re.search(r"(passed|failed|error)", line)
MatchesSummary(line) ==
    \E i \in 1..Len(line) : \E kw \in Keywords : HasSubstring(line[i], kw)

\* the loop of lines 65-68: the last matching line, "" when none matches
RECURSIVE SummaryLine(_)
SummaryLine(out) ==
    IF out = <<>> THEN <<>>
    ELSE IF MatchesSummary(out[Len(out)]) THEN out[Len(out)]
    ELSE SummaryLine(SubSeq(out, 1, Len(out) - 1))

\* "kw" in summary_line
Contains(line, kw) == \E i \in 1..Len(line) : HasSubstring(line[i], kw)

\* positions where (\d+)\s+kw matches
CountMatches(line, kw) ==
    {i \in 1..(Len(line) - 1) : IsDigits(line[i]) /\ HasPrefix(line[i + 1], kw)}

\* re.search(...) returns None, so .group(1) raises AttributeError
CountRaises(line, kw) == Contains(line, kw) /\ CountMatches(line, kw) = {}

Min(S) == CHOOSE x \in S : \A y \in S : x <= y

\* int(re.search(r"(\d+)\s+kw", line).group(1)) if "kw" in line else 0
Count(line, kw) ==
    IF Contains(line, kw) /\ CountMatches(line, kw) # {}
    THEN IntOf(line[Min(CountMatches(line, kw))])
    ELSE 0

ParseRaises(out) == \E kw \in Keywords : CountRaises(SummaryLine(out), kw)

\* line.strip().startswith(marker)
StartsWith(line, marker) == Len(line) > 0 /\ line[1] = marker

\* the loop of lines 76-81
RECURSIVE CollectTests(_)
CollectTests(out) ==
    IF out = <<>> THEN <<>>
    ELSE LET line == out[1]
             rest == CollectTests(Tail(out))
         IN  IF StartsWith(line, "FAILED")
             THEN <<[name |-> line, status |-> "failed", error |-> line]>> \o rest
             ELSE IF StartsWith(line, "PASSED")
             THEN <<[name |-> line, status |-> "passed"]>> \o rest
             ELSE rest

ScoreTruncated(passed, total) == (10000 * passed) \div total
\* round(passed / total * 100, 2), kept in hundredths of a point
Score(passed, total) == ((20000 * passed) + total) \div (2 * total)

NoTests == <<>>
NoTestsCollected ==
    <<[name |-> <<"collection">>, status |-> "failed",
       error |-> <<"No", "tests", "collected">>]>>

ParseFirstLine(out) ==
    LET summary_line == IF out = <<>> THEN <<>> ELSE out[1]
        passed == Count(summary_line, "passed")
        failed == Count(summary_line, "failed")
        errors == Count(summary_line, "error")
        total  == passed + failed + errors
    IN  IF total = 0
        THEN [score |-> 0, total_tests |-> 0, passed_tests |-> 0,
              failed_tests_count |-> 0, tests |-> NoTestsCollected]
        ELSE [score |-> Score(passed, total), total_tests |-> total,
              passed_tests |-> passed, failed_tests_count |-> failed + errors,
              tests |-> CollectTests(out)]
\* lines 64-103: the dict run_tests_on_code returns for an output it can parse
\* (raw_output is the variable output)
ParseResult(out) ==
    LET summary_line == SummaryLine(out)
        passed == Count(summary_line, "passed")
        failed == Count(summary_line, "failed")
        errors == Count(summary_line, "error")
        total  == passed + failed + errors
    IN  IF total = 0
        THEN [score |-> 0, total_tests |-> 0, passed_tests |-> 0,
              failed_tests_count |-> 0, tests |-> NoTestsCollected]
        ELSE [score |-> Score(passed, total), total_tests |-> total,
              passed_tests |-> passed, failed_tests_count |-> failed + errors,
              tests |-> CollectTests(out)]


\* ------------------------------------------------------------------------
\* The submission pipeline
\* ------------------------------------------------------------------------
Handlers == {"api", "ai_grader"}

TempDir        == "temp_dir"
SubmissionPath == "temp_dir/submission.py"
TestPath       == "temp_dir/test_submission.py"

\* positions of the request thread inside run_tests_on_code
InRunTests == {"run_tests", "tempdir", "wrote_submission", "wrote_tests",
               "running", "exited"}

\* what get_llm_feedback and estimate_time_space_complexity hand back
FeedbackValues   == {"model feedback", "fallback feedback"}
ComplexityValues == {"model estimate", "fallback estimate"}

\* leaving the with-block of tempfile.TemporaryDirectory(), by return or by
\* exception: the directory and everything in it is removed
ExitTempDirLeaky(files, raised) == IF raised THEN files ELSE {}
ExitTempDir(files, raised) == {}

\* test.get(...) with test None; re.search(...).group(1) with no match
GetOfNone   == "AttributeError: 'NoneType' object has no attribute 'get'"
GroupOfNone == "AttributeError: 'NoneType' object has no attribute 'group'"

\* an exception leaves run_tests_on_code and, no handler catching it,
\* the request handler
Raise(e) ==
    /\ pc' = "crashed"
    /\ exception' = e
    /\ temp_files' = ExitTempDir(temp_files, TRUE)

\* submit_code up to the call of run_tests_on_code
\*   api.py 168-174, ai_grader.py 258-261
SubmitCode(h, test_found, student_code) ==
    /\ pc = "idle"
    /\ handler' = h
    /\ IF h = "api"
       THEN \* form.get('student_code', '').strip(); early return
            IF ~test_found \/ student_code \in {"None", ""}
            THEN pc' = "redirected" /\ exception' = exception
            ELSE pc' = "run_tests" /\ exception' = exception
       ELSE \* test.get(...) on a missing test
            IF ~test_found
            THEN pc' = "crashed" /\ exception' = GetOfNone
            ELSE pc' = (IF student_code = "None" THEN "run_tests_none" ELSE "run_tests")
                 /\ exception' = exception
    /\ UNCHANGED <<temp_files, hangs, output, test_results, submission, apc>>
    /\ UNCHANGED <<wvars, svars, xvars>>

\* with tempfile.TemporaryDirectory() as temp_dir      (line 43)
EnterTempDir ==
    /\ pc \in {"run_tests", "run_tests_none"}
    /\ temp_files' = {TempDir}
    /\ pc' = (IF pc = "run_tests_none" THEN "tempdir_none" ELSE "tempdir")
    /\ UNCHANGED <<handler, exception, hangs, output, test_results, submission, apc>>
    /\ UNCHANGED <<wvars, svars, xvars>>

\* open(submission_path, "w") ... f.write(sanitized)   (lines 45-47)
\* f.write(None) raises TypeError; the file system may refuse the write
WriteSubmission(io_ok) ==
    /\ pc \in {"tempdir", "tempdir_none"}
    /\ IF pc = "tempdir_none"
       THEN Raise("TypeError")
       ELSE IF io_ok
            THEN /\ temp_files' = temp_files \cup {SubmissionPath}
                 /\ pc' = "wrote_submission"
                 /\ exception' = exception
            ELSE Raise("OSError")
    /\ UNCHANGED <<handler, hangs, output, test_results, submission, apc>>
    /\ UNCHANGED <<wvars, svars, xvars>>

\* open(test_path, "w") ... f.write(test_cases_code)   (lines 50-52)
WriteTests(io_ok) ==
    /\ pc = "wrote_submission"
    /\ IF io_ok
       THEN /\ temp_files' = temp_files \cup {TestPath}
            /\ pc' = "wrote_tests"
            /\ exception' = exception
       ELSE Raise("OSError")
    /\ UNCHANGED <<handler, hangs, output, test_results, submission, apc>>
    /\ UNCHANGED <<wvars, svars, xvars>>

\* subprocess.run([... pytest ...], cwd=temp_dir, capture_output=True, text=True)
\* starts the child and waits for it; no timeout argument is passed (55-60)
StartSubprocess(never_ends) ==
    /\ pc = "wrote_tests"
    /\ pc' = "running"
    /\ hangs' = never_ends
    /\ UNCHANGED <<handler, exception, temp_files, output, test_results, submission, apc>>
    /\ UNCHANGED <<wvars, svars, xvars>>

\* the child exits and subprocess.run returns its captured output (60-62)
SubprocessExit(out) ==
    /\ pc = "running"
    /\ ~hangs
    /\ output' = out
    /\ pc' = "exited"
    /\ UNCHANGED <<handler, exception, temp_files, hangs, test_results, submission, apc>>
    /\ UNCHANGED <<wvars, svars, xvars>>

\* lines 64-103: parse the output and return, or raise from .group(1)
ParseOutput ==
    /\ pc = "exited"
    /\ IF ParseRaises(output)
       THEN /\ Raise(GroupOfNone)
            /\ UNCHANGED test_results
       ELSE /\ test_results' = ParseResult(output)
            /\ temp_files' = ExitTempDir(temp_files, FALSE)
            /\ pc' = "returned"
            /\ exception' = exception
    /\ UNCHANGED <<handler, hangs, output, submission, apc>>
    /\ UNCHANGED <<wvars, svars, xvars>>

\* passed = ... as each handler computes it
\*   api.py 175:        failed_tests_count == 0 and total_tests > 0
\*   ai_grader.py 262:  failed_tests_count == 0
Passed(h, results) ==
    IF h = "api"
    THEN results.failed_tests_count = 0 /\ results.total_tests > 0
    ELSE results.failed_tests_count = 0

\* the document each handler inserts   (api.py 178-193, ai_grader.py 264-268)
\* None stands for a null field and for a field the document does not have;
\* readers take a missing total_tests as 0 (.get('total_tests', 0))
Document(h, results) ==
    [score |-> results.score,
     tests |-> results.tests,
     pass  |-> Passed(h, results),
     total_tests |-> IF h = "api" THEN results.total_tests ELSE 0,
     ai_feedback |-> None,
     complexity  |-> None]

\* insert_one(doc), start the enrichment thread, redirect
\*   api.py 194-214, ai_grader.py 269-275
PersistSubmission ==
    /\ pc = "returned"
    /\ submission' = Document(handler, test_results)
    /\ apc' = "started"
    /\ pc' = "redirected"
    /\ UNCHANGED <<handler, exception, temp_files, hangs, output, test_results>>
    /\ UNCHANGED <<wvars, svars, xvars>>

\* _async_ai of api.py: first model call, then the first update_one (199-203)
AsyncFeedback(fb) ==
    /\ handler = "api"
    /\ apc = "started"
    /\ submission' = [submission EXCEPT !.ai_feedback = fb]
    /\ apc' = "feedback_saved"
    /\ UNCHANGED <<handler, pc, exception, temp_files, hangs, output, test_results>>
    /\ UNCHANGED <<wvars, svars, xvars>>

\* _async_ai of api.py: second model call, then the second update_one (204-208)
AsyncComplexity(c) ==
    /\ handler = "api"
    /\ apc = "feedback_saved"
    /\ submission' = [submission EXCEPT !.complexity = c]
    /\ apc' = "done"
    /\ UNCHANGED <<handler, pc, exception, temp_files, hangs, output, test_results>>
    /\ UNCHANGED <<wvars, svars, xvars>>

\* _async_ai of ai_grader.py: both model calls, then one update_one (270-273)
AsyncBoth(fb, c) ==
    /\ handler = "ai_grader"
    /\ apc = "started"
    /\ submission' = [submission EXCEPT !.ai_feedback = fb, !.complexity = c]
    /\ apc' = "done"
    /\ UNCHANGED <<handler, pc, exception, temp_files, hangs, output, test_results>>
    /\ UNCHANGED <<wvars, svars, xvars>>

\* the steps of one run_tests_on_code call
RunTestsStep ==
    \/ EnterTempDir
    \/ \E io_ok \in BOOLEAN : WriteSubmission(io_ok)
    \/ \E io_ok \in BOOLEAN : WriteTests(io_ok)
    \/ \E never_ends \in BOOLEAN : StartSubprocess(never_ends)
    \/ \E out \in Outputs : SubprocessExit(out)
    \/ ParseOutput


\* ------------------------------------------------------------------------
\* GeminiWrapper  (utils/ai_client.py)
\* ------------------------------------------------------------------------
MODEL_CANDIDATES == <<"models/gemini-2.5-flash", "models/gemini-2.5-pro",
                      "models/gemini-pro-latest", "models/gemini-flash-latest">>

Threads == 1..NumThreads

\* values os.getenv("GEMINI_API_KEY") may have at construction
ApiKeys == {None, "", "YOUR_API_KEY_HERE", "a-valid-key"}

NoError     == [kind |-> "none"]
NoOutcome   == [kind |-> "none"]
ConfigError == [kind |-> "RuntimeError", text |-> "AI model not configured"]
NoModelsError == [kind |-> "RuntimeError", text |-> "No Gemini models available"]

\* the exception a failed request to model_id raises
ErrorOf(model_id) == [kind |-> "error", model |-> model_id]
\* the response a successful request to model_id returns
ResponseOf(model_id, via) == [kind |-> "response", model |-> model_id, via |-> via]

\* __init__: not api_key or api_key == "YOUR_API_KEY_HERE"   (line 26)
DisabledForMissingOnly(key) == key \in {None, ""}
DisabledFor(key) == key \in {None, ""} \/ key = "YOUR_API_KEY_HERE"

\* except Exception as e: last_error = e                      (lines 49-50)
KeepFirstError(old, e) == IF old = NoError THEN e ELSE old
NextLastError(old, e) == e

\* generate_content up to its first request (lines 33-41): the disabled
\* check, then the pinned model if there is one, else the start of the loop
GenerateContent(t) ==
    /\ tpc[t] = "idle"
    /\ pins_at_start' = [pins_at_start EXCEPT ![t] = Len(pins)]
    /\ IF disabled
       THEN /\ tpc' = [tpc EXCEPT ![t] = "raised"]
            /\ outcome' = [outcome EXCEPT ![t] = ConfigError]
            /\ UNCHANGED <<requested, model_idx, last_error>>
       ELSE IF active_model # None
       THEN \* genai.GenerativeModel(self._active_model).generate_content(prompt)
            /\ tpc' = [tpc EXCEPT ![t] = "direct"]
            /\ requested' = [requested EXCEPT ![t] = <<active_model>>]
            /\ UNCHANGED <<outcome, model_idx, last_error>>
       ELSE /\ tpc' = [tpc EXCEPT ![t] = "probing"]
            /\ model_idx' = [model_idx EXCEPT ![t] = 1]
            /\ last_error' = [last_error EXCEPT ![t] = NoError]
            /\ requested' = [requested EXCEPT ![t] = <<>>]
            /\ UNCHANGED outcome
    /\ UNCHANGED <<api_key, disabled, active_model, pins>>
    /\ UNCHANGED <<pvars, svars, xvars>>

\* the request to the pinned model answers or raises (line 39)
DirectResponse(t, ok) ==
    /\ tpc[t] = "direct"
    /\ IF ok
       THEN /\ tpc' = [tpc EXCEPT ![t] = "returned"]
            /\ outcome' = [outcome EXCEPT ![t] = ResponseOf(requested[t][1], "direct")]
       ELSE /\ tpc' = [tpc EXCEPT ![t] = "raised"]
            /\ outcome' = [outcome EXCEPT ![t] = ErrorOf(requested[t][1])]
    /\ UNCHANGED <<api_key, disabled, active_model, model_idx, last_error,
                   requested, pins, pins_at_start>>
    /\ UNCHANGED <<pvars, svars, xvars>>

\* one iteration of the for loop (lines 43-51): the request to the current
\* candidate answers (pin it and return) or raises (remember the error)
ProbeCandidate(t, ok) ==
    /\ tpc[t] = "probing"
    /\ LET model_id == MODEL_CANDIDATES[model_idx[t]]
       IN  /\ requested' = [requested EXCEPT ![t] = Append(@, model_id)]
           /\ IF ok
              THEN /\ active_model' = model_id
                   /\ pins' = Append(pins, model_id)
                   /\ tpc' = [tpc EXCEPT ![t] = "returned"]
                   /\ outcome' = [outcome EXCEPT ![t] = ResponseOf(model_id, "probe")]
                   /\ UNCHANGED <<model_idx, last_error>>
              ELSE /\ last_error' = [last_error EXCEPT
                                       ![t] = NextLastError(@, ErrorOf(model_id))]
                   /\ IF model_idx[t] = Len(MODEL_CANDIDATES)
                      THEN /\ tpc' = [tpc EXCEPT ![t] = "exhausted"]
                           /\ UNCHANGED model_idx
                      ELSE /\ model_idx' = [model_idx EXCEPT ![t] = @ + 1]
                           /\ UNCHANGED tpc
                   /\ UNCHANGED <<active_model, pins, outcome>>
    /\ UNCHANGED <<api_key, disabled, pins_at_start>>
    /\ UNCHANGED <<pvars, svars, xvars>>

\* raise last_error or RuntimeError("No Gemini models available.")  (line 53)
RaiseLastError(t) ==
    /\ tpc[t] = "exhausted"
    /\ tpc' = [tpc EXCEPT ![t] = "raised"]
    /\ outcome' = [outcome EXCEPT ![t] =
                     IF last_error[t] = NoError THEN NoModelsError ELSE last_error[t]]
    /\ UNCHANGED <<api_key, disabled, active_model, model_idx, last_error,
                   requested, pins, pins_at_start>>
    /\ UNCHANGED <<pvars, svars, xvars>>

\* the caller has its answer; the thread is free for its next call
CallEnds(t) ==
    /\ tpc[t] \in {"returned", "raised"}
    /\ tpc' = [tpc EXCEPT ![t] = "idle"]
    /\ outcome' = [outcome EXCEPT ![t] = NoOutcome]
    /\ requested' = [requested EXCEPT ![t] = <<>>]
    /\ model_idx' = [model_idx EXCEPT ![t] = 1]
    /\ last_error' = [last_error EXCEPT ![t] = NoError]
    /\ UNCHANGED <<api_key, disabled, active_model, pins, pins_at_start>>
    /\ UNCHANGED <<pvars, svars, xvars>>

\* ------------------------------------------------------------------------
\* Source sanitizer  (utils/evaluation_logic.py 19-38)
\* A source text is a sequence of top-level chunks.  A chunk is a statement
\* of some kind, or text that is no Python at all; deep marks a statement
\* nested beyond what the recursive unparser can walk.
\* ------------------------------------------------------------------------
AllowedKinds == {"Import", "ImportFrom", "FunctionDef", "AsyncFunctionDef", "ClassDef"}
OtherKinds   == {"Expr", "Assign"}
InvalidSyntax == "<invalid syntax>"

Chunks ==
    {[kind |-> k, deep |-> FALSE] : k \in AllowedKinds \cup OtherKinds \cup {InvalidSyntax}}
    \cup {[kind |-> "FunctionDef", deep |-> TRUE], [kind |-> "Expr", deep |-> TRUE]}

Sources == SeqsUpTo(Chunks, MaxStmts)

\* ast.parse(source_code) raises SyntaxError
ParseFails(text) == \E i \in 1..Len(text) : text[i].kind = InvalidSyntax

\* isinstance(node, allowed_nodes)                            (lines 28-32)
IsAllowed(node) == node.kind \in AllowedKinds

\* the loop of lines 30-33
RECURSIVE NewBody(_)
NewBody(body) ==
    IF body = <<>> THEN <<>>
    ELSE IF IsAllowed(body[1]) THEN <<body[1]>> \o NewBody(Tail(body))
    ELSE NewBody(Tail(body))

\* ast.unparse(new_module) raises RecursionError
UnparseFails(body) == \E i \in 1..Len(body) : body[i].deep

\* _extract_functions_and_imports: <<returned text, except branch taken>>
ExtractFunctionsAndImports(text) ==
    IF ParseFails(text) THEN <<text, TRUE>>
    ELSE IF UnparseFails(NewBody(text)) THEN <<text, TRUE>>
    ELSE <<NewBody(text), FALSE>>

Sanitize ==
    /\ sanitized = NotRun
    /\ sanitized' = ExtractFunctionsAndImports(source_code)[1]
    /\ fell_back' = ExtractFunctionsAndImports(source_code)[2]
    /\ UNCHANGED source_code
    /\ UNCHANGED <<pvars, wvars, xvars>>

\* ------------------------------------------------------------------------
\* run_script  (manual_fix_runner.py 156-181, utils/logic.py 17-21)
\* ------------------------------------------------------------------------
\* timeout=10 of subprocess.run                 (manual_fix_runner.py 169)
Timeout == 10

MaxText == 2     \* characters of a captured stream

\* A captured stream is a sequence of characters; " " stands for whitespace.
Chars == {" ", "e"}
Texts == SeqsUpTo(Chars, MaxText)

\* str.strip(): leading and trailing whitespace removed
RECURSIVE Strip(_)
Strip(text) ==
    IF text = <<>> THEN <<>>
    ELSE IF Head(text) = " " THEN Strip(Tail(text))
    ELSE IF text[Len(text)] = " " THEN Strip(SubSeq(text, 1, Len(text) - 1))
    ELSE text

RunScriptModules == {"manual_fix_runner", "logic"}

NoValue    == [kind |-> "<no value>"]
ReturnNone == [kind |-> "None"]
ReturnStr(text) == [kind |-> "str", text |-> text]
\* f"Error: The file '{script_path}' does not exist."            (line 162)
MissingFileMessage == [kind |-> "Error: The file does not exist."]
\* "TimeoutError: The script ran for more than 10 seconds ...\n
\*  Output captured before timeout:\n{e.stdout.strip()}"     (lines 176-180)
TimeoutMessage(captured) == [kind |-> "TimeoutError", captured |-> captured]

\* `python <missing path>` exits with status 2 and a message on stderr
CantOpenFile == [seconds |-> 1, terminates |-> TRUE, returncode |-> 2,
                 stdout |-> <<>>, stderr |-> <<"e">>]

\* What a script can do: how long it runs, whether it ends at all, its exit
\* status and what it has written to the two captured streams.
Processes ==
    [seconds : {1, Timeout + 1}, terminates : BOOLEAN, returncode : {0, 1},
     stdout : Texts, stderr : Texts]

\* subprocess.run(..., timeout=10) raises TimeoutExpired when the child has
\* not ended after 10 seconds; utils/logic.py passes no timeout.
HasTimeout(m) == m = "manual_fix_runner"
Expires(m, proc) ==
    HasTimeout(m) /\ (~proc.terminates \/ proc.seconds > Timeout)

\* TimeoutExpired.stdout: the bytes read so far, None when nothing was read
CapturedIsNone(proc) == proc.stdout = <<>>

\* result.stderr.strip() if result.returncode != 0 else None
\*                          (manual_fix_runner.py 172, utils/logic.py 21)
Classify(proc) ==
    IF proc.returncode # 0 THEN ReturnStr(Strip(proc.stderr)) ELSE ReturnNone

\* run_script(script_path) up to subprocess.run
RunScript(m, path_exists, proc) ==
    /\ rs_pc = "idle"
    /\ rs_module' = m
    /\ IF HasTimeout(m) /\ ~path_exists
       THEN /\ rs_pc' = "returned"
            /\ rs_result' = MissingFileMessage
            /\ rs_proc' = rs_proc
       ELSE /\ rs_pc' = "running"
            /\ rs_proc' = (IF path_exists THEN proc ELSE CantOpenFile)
            /\ rs_result' = rs_result
    /\ UNCHANGED rs_exception
    /\ UNCHANGED <<pvars, wvars, svars, evars, lvars>>

\* the child ends before any timeout expires: the return of line 172 / 21
ScriptExits ==
    /\ rs_pc = "running"
    /\ rs_proc.terminates
    /\ ~Expires(rs_module, rs_proc)
    /\ rs_pc' = "returned"
    /\ rs_result' = Classify(rs_proc)
    /\ UNCHANGED <<rs_module, rs_proc, rs_exception>>
    /\ UNCHANGED <<pvars, wvars, svars, evars, lvars>>

\* except subprocess.TimeoutExpired as e                    (lines 174-181)
ScriptTimesOut ==
    /\ rs_pc = "running"
    /\ Expires(rs_module, rs_proc)
    /\ IF CapturedIsNone(rs_proc)
       THEN /\ rs_pc' = "raised"
            /\ rs_exception' = "AttributeError"
            /\ rs_result' = rs_result
       ELSE /\ rs_pc' = "returned"
            /\ rs_result' = TimeoutMessage(Strip(rs_proc.stdout))
            /\ rs_exception' = rs_exception
    /\ UNCHANGED <<rs_module, rs_proc>>
    /\ UNCHANGED <<pvars, wvars, svars, evars, lvars>>

\* ------------------------------------------------------------------------
\* Content generation: generate_question_variations, select_best_question
\* (utils/ai_question_generator.py) and generate_auto_materials (api.py,
\* utils/ai_grader.py)
\* ------------------------------------------------------------------------
MaxQuestions == 2     \* entries of a "questions" list the model returns
MaxCount     == 2     \* count argument of a direct call

\* count=5, the default generate_question_variations is called with
\*                                       (ai_question_generator.py 24)
DefaultCount == 5

\* A Python string is a record: the format it was built from and the text
\* put into it.  Str(t) is the literal text t.
Str(t) == [kind |-> "text", text |-> t]
NoneValue == [kind |-> "None", text |-> ""]
\* a JSON number where a string was asked for
NotAString == [kind |-> "int", text |-> "7"]

\* f"Error generating question for {user_prompt}"          (lines 66, 69)
ErrorPlaceholder(user_prompt) ==
    [kind |-> "Error generating question for", text |-> user_prompt.text]
\* f"Create a function that uses '{user_prompt}'."             (line 30)
CreatePlaceholder(user_prompt) ==
    [kind |-> "Create a function that uses", text |-> user_prompt.text]

\* what an educator may type as problem_description
Topics == {Str("sort a list"), Str("x")}

\* entries a "questions" list of the model may hold
ModelEntries ==
    {Str("Sort the names of a class"), Str("Reverse a string"), Str("?"),
     NotAString}

IsStr(q) == q.kind \notin {"int", "None"}

\* "Error generating question" in q
HasErrorPhrase(q) == q.kind = "Error generating question for"

\* q has a token of two or more word characters, the only tokens
\* TfidfVectorizer's default token_pattern keeps
HasWord(q) == q.kind # "text" \/ q.text \notin {"x", "?"}

\* ---- what the model backend answers ----
\* generate_content raised, or reading resp.text raised
CallRaises == [kind |-> "raises"]

NotJson   == [json |-> "invalid"]
EmptyText == [json |-> "empty"]
JsonArray == [json |-> "array"]

\* the value under "questions": absent, a non-list, or a list
QuestionsValues ==
    {[present |-> FALSE, is_list |-> FALSE, items |-> <<>>],
     [present |-> TRUE,  is_list |-> FALSE, items |-> <<>>]}
    \cup {[present |-> TRUE, is_list |-> TRUE, items |-> l] :
             l \in SeqsUpTo(ModelEntries, MaxQuestions)}

VariationBodies ==
    {NotJson, EmptyText, JsonArray}
    \cup {[json |-> "object", questions |-> q] : q \in QuestionsValues}

\* a "tests" string is a sequence of lines
ImportLine == "from submission import solution"
TestsTexts ==
    {<<>>, <<"x = 1">>, <<ImportLine>>, <<"def test_a():">>,
     <<ImportLine, "def test_a():">>}
TestsNone == [kind |-> "None", text |-> <<>>]
TestsInt  == [kind |-> "int", text |-> <<>>]
TestsValues ==
    {TestsNone, TestsInt}
    \cup {[kind |-> "text", text |-> l] : l \in TestsTexts}
ScenarioValues == {NoneValue, Str(""), Str("A shop sorts its orders")}

MaterialBodies ==
    {NotJson, EmptyText, JsonArray}
    \cup {[json |-> "object", scenario_question |-> s, tests |-> t] :
             s \in ScenarioValues, t \in TestsValues}

\* resp.text: the body, bare or wrapped in markdown fences; OneLineFence is
\* a text of a single line that begins with a fence
OneLineFence == [kind |-> "text", fence |-> "one_line", body |-> NotJson]
Responses(bodies) ==
    {CallRaises, OneLineFence}
    \cup {[kind |-> "text", fence |-> f, body |-> b] :
             f \in {"none", "fenced"}, b \in bodies}

\* _strip_markdown_fences: a fenced text of two or more lines loses its
\* first line and its closing fence; a one-line text that begins with a
\* fence is returned as it is, and is not JSON.
StripMarkdownFences(resp) ==
    IF resp.fence = "one_line" THEN NotJson ELSE resp.body

\* what a function call ends with
Returned(v) == [kind |-> "return", value |-> v]
Raised(e)   == [kind |-> "raise", exc |-> e]

\* `not GEMINI_MODEL`: GEMINI_MODEL is always a GeminiWrapper object
\* (ai_client.py 57), and an object without __bool__ is never falsy
ModelIsFalsy == FALSE

PlaceholdersOfDefaultCount(user_prompt, count) ==
    [i \in 1..DefaultCount |-> ErrorPlaceholder(user_prompt)]
\* [f"Error generating question for {user_prompt}" for _ in range(count)]
ErrorPlaceholders(user_prompt, count) ==
    [i \in 1..count |-> ErrorPlaceholder(user_prompt)]

\* the try block of generate_question_variations          (lines 33-62)
TryVariations(resp) ==
    IF resp = CallRaises THEN Raised("RuntimeError")
    ELSE LET data == StripMarkdownFences(resp)
         IN  IF data.json \in {"invalid", "empty"} THEN Raised("JSONDecodeError")
             ELSE IF data.json # "object" THEN Raised("AttributeError")
             ELSE LET questions == data.questions
                  IN  IF ~questions.present \/ ~questions.is_list
                         \/ questions.items = <<>>
                      THEN Raised("ValueError")
                      ELSE Returned(questions.items)

\* generate_question_variations(user_prompt, count)        (lines 24-69)
GenerateQuestionVariations(user_prompt, count, resp) ==
    IF ModelIsFalsy
    THEN Returned([i \in 1..count |-> CreatePlaceholder(user_prompt)])
    ELSE LET r == TryVariations(resp)
         IN  IF r.kind = "return" THEN r
             ELSE IF r.exc \in {"JSONDecodeError", "ValueError"}
             THEN Returned(ErrorPlaceholders(user_prompt, count))
             ELSE Returned(ErrorPlaceholders(user_prompt, count))

\* all("Error generating question" in q for q in generated_questions):
\* stops at the first entry without the phrase, raises TypeError on an
\* entry that is not a string
RECURSIVE AllErrorPhrase(_)
AllErrorPhrase(list) ==
    IF list = <<>> THEN "True"
    ELSE IF ~IsStr(Head(list)) THEN "TypeError"
    ELSE IF ~HasErrorPhrase(Head(list)) THEN "False"
    ELSE AllErrorPhrase(Tail(list))

\* values cosine_similarity may give a candidate, coarsely
Similarities == {0, 1, 2}

ArgMaxLast(sims) ==
    CHOOSE i \in 1..Len(sims) :
        /\ \A j \in 1..Len(sims) : sims[j] <= sims[i]
        /\ \A j \in (i + 1)..Len(sims) : sims[j] < sims[i]
\* cosine_similarities.argmax(): the first index of the greatest value
ArgMax(sims) ==
    CHOOSE i \in 1..Len(sims) :
        /\ \A j \in 1..Len(sims) : sims[j] <= sims[i]
        /\ \A j \in 1..(i - 1) : sims[j] < sims[i]

SelectWithoutFallback(user_prompt, generated_questions, sims) ==
    IF generated_questions = <<>> THEN Raised("ValueError")
    ELSE Returned(generated_questions[
             IF Len(sims) = Len(generated_questions) THEN ArgMax(sims) ELSE 1])
\* select_best_question(user_prompt, generated_questions)  (lines 71-85);
\* sims is what cosine_similarity returns for the candidates
SelectBestQuestion(user_prompt, generated_questions, sims) ==
    IF generated_questions = <<>> THEN Returned(user_prompt)
    ELSE LET only_errors == AllErrorPhrase(generated_questions)
             n == Len(generated_questions)
         IN  IF only_errors = "True" THEN Returned(user_prompt)
             ELSE IF only_errors = "TypeError" THEN Raised("TypeError")
             ELSE IF \E i \in 1..n : ~IsStr(generated_questions[i])
             THEN Raised("AttributeError")
             ELSE IF ~HasWord(user_prompt)
                     /\ \A i \in 1..n : ~HasWord(generated_questions[i])
             THEN Raised("ValueError")
             ELSE Returned(generated_questions[ArgMax(sims)])

\* "def test_" in tests / "from submission import solution" in tests
HasDefTest(code) ==
    \E i \in 1..Len(code) : code[i] \in {"def test_a():", "def test_placeholder():"}
HasImport(code) == \E i \in 1..Len(code) : code[i] = ImportLine

\* fallback_materials          (api.py 57-60, utils/ai_grader.py 96-99):
\* the scenario names the description; the two tests strings differ in a
\* trailing newline
FallbackMaterials(variant, problem_description) ==
    [scenario |-> [kind |-> "Scenario: A real-world application for",
                   text |-> variant, about |-> problem_description],
     tests |-> [kind |-> "text",
                text |-> IF variant = "api"
                         THEN <<ImportLine, "def test_placeholder():">>
                         ELSE <<ImportLine, "def test_placeholder():", "">>]]

\* bool(v) of a value taken from the JSON object
TruthyScenario(s) == s.kind # "None" /\ s.text # ""
TruthyTests(t) == t.kind = "int" \/ (t.kind = "text" /\ t.text # <<>>)

\* tests = "from submission import solution\n\n" + tests   (api.py 75-76)
WithImport(variant, tests) ==
    IF variant = "api" /\ ~HasImport(tests.text)
    THEN [kind |-> "text", text |-> <<ImportLine>> \o tests.text]
    ELSE tests

\* the try block of generate_auto_materials
\*                            (api.py 66-80, utils/ai_grader.py 105-120)
TryMaterials(variant, problem_description, resp) ==
    IF resp = CallRaises THEN Raised("RuntimeError")
    ELSE LET materials == StripMarkdownFences(resp)
         IN  IF materials.json \in {"invalid", "empty"} THEN Raised("JSONDecodeError")
             ELSE IF materials.json # "object" THEN Raised("AttributeError")
             ELSE LET scenario == materials.scenario_question
                      tests    == materials.tests
                  IN  IF ~TruthyScenario(scenario) \/ ~TruthyTests(tests)
                      THEN Returned(FallbackMaterials(variant, problem_description))
                      ELSE IF tests.kind = "int" THEN Raised("TypeError")
                      ELSE IF ~HasDefTest(tests.text)
                      THEN Returned(FallbackMaterials(variant, problem_description))
                      ELSE Returned([scenario |-> scenario,
                                     tests |-> WithImport(variant, tests)])

\* which exceptions the except clause of each variant catches
\*   api.py 81:            except Exception
\*   utils/ai_grader.py 122: except json.JSONDecodeError
Catches(variant, exc) == variant = "api" \/ exc = "JSONDecodeError"

\* generate_auto_materials(problem_description); model_set says whether
\* utils/ai_grader.py's _MODEL was set at import
GenerateAutoMaterials(variant, problem_description, model_set, resp) ==
    IF (variant = "api" /\ ModelIsFalsy) \/ (variant = "ai_grader" /\ ~model_set)
    THEN Returned(FallbackMaterials(variant, problem_description))
    ELSE LET r == TryMaterials(variant, problem_description, resp)
         IN  IF r.kind = "return" THEN r
             ELSE IF Catches(variant, r.exc)
             THEN Returned(FallbackMaterials(variant, problem_description))
             ELSE r

\* ---- get_llm_feedback and estimate_time_space_complexity ----
\* the text of a feedback response: empty, white space only, or prose
BlankText == [json |-> "blank"]
FeedbackBodies == {EmptyText, BlankText, NotJson}

\* the JSON of a complexity response; NoneValue stands for a key the
\* object does not have
BigOValues == {NoneValue, Str("O(n)"), Str("O(n^2)")}
ComplexityBodies ==
    {NotJson, EmptyText, JsonArray}
    \cup {[json |-> "object", time |-> t, space |-> s] :
             t \in BigOValues, s \in BigOValues}

\* arguments of get_llm_feedback: score in hundredths; passed may be None
Scores == {0, 6000}
Totals == {0, 5}
PassedFlags == {"None", "True", "False"}

\* bool(passed)
Bool(flag) == flag = "True"

\* the fallback text of get_llm_feedback  (utils/ai_grader.py 143-148)
FeedbackFallback(score, total_tests, passed) ==
    [kind |-> "AI feedback is currently unavailable.",
     score |-> score, total_tests |-> total_tests, passed |-> Bool(passed)]

\* get_llm_feedback  (utils/ai_grader.py 127-190)
GetLlmFeedback(model_set, resp, score, total_tests, passed) ==
    IF ~model_set THEN Returned(FeedbackFallback(score, total_tests, passed))
    ELSE IF resp = CallRaises
    THEN Returned(FeedbackFallback(score, total_tests, passed))
    ELSE LET cleaned == StripMarkdownFences(resp)
         IN  IF cleaned \in {EmptyText, BlankText}
             THEN Returned(FeedbackFallback(score, total_tests, passed))
             ELSE Returned(cleaned)

\* {"time": "O(n)", "space": "O(1)", "rationale": ...}   (lines 195, 199)
DefaultEstimate(rationale) ==
    [json |-> "object", time |-> Str("O(n)"), space |-> Str("O(1)"),
     rationale |-> rationale]

\* json.loads(resp.text) of line 198 raises: the call raised, the text is
\* empty, is not JSON, or is JSON wrapped in markdown fences
LoadsRaises(resp) ==
    \/ resp = CallRaises
    \/ resp.fence # "none"
    \/ resp.body.json \in {"invalid", "empty"}

\* estimate_time_space_complexity  (utils/ai_grader.py 193-199): whatever
\* json.loads gives is returned as it is
EstimateTimeSpaceComplexity(model_set, resp) ==
    IF ~model_set THEN Returned(DefaultEstimate("Default fallback"))
    ELSE IF LoadsRaises(resp) THEN Returned(DefaultEstimate("Estimation failed"))
    ELSE Returned(resp.body)

\* ------------------------------------------------------------------------
\* educator_create_test   (api.py 227-253, utils/ai_grader.py 288-316)
\* ------------------------------------------------------------------------
EduThreads == {"r1", "r2"}

\* access_code of the form; "" is a field left empty.  title behaves like
\* the other required fields and is not kept.
Codes == {"", "A1", "B2"}

NoForm == [user_prompt |-> NoneValue, code |-> ""]
NoCall == [fn |-> "<none>"]

\* tests_collection.find_one({'access_code': code})
FindOne(collection, code) ==
    \E i \in 1..Len(collection) : collection[i].access_code = code

\* lines 228-237 / 289-295: read the form, check the fields (api.py only)
\* and look the access code up
PostForm(r, user_prompt, code) ==
    /\ call = NoCall
    /\ epc[r] = "idle"
    /\ form' = [form EXCEPT ![r] = [user_prompt |-> user_prompt, code |-> code]]
    /\ epc' = [epc EXCEPT ![r] =
                 IF app = "api" /\ code = "" THEN "rejected_fields"
                 ELSE IF FindOne(tests_collection, code) THEN "rejected_code"
                 ELSE "checked"]
    /\ UNCHANGED <<tests_collection, best_question, calls_raised, eexception,
                   call, configured, app>>
    /\ UNCHANGED <<pvars, wvars, svars, rvars, lvars>>

SimVectors(n) == [1..n -> Similarities]

\* whether select_best_question gets as far as cosine_similarity
UsesVectorizer(user_prompt, generated_questions) ==
    /\ generated_questions # <<>>
    /\ AllErrorPhrase(generated_questions) = "False"
    /\ \A i \in 1..Len(generated_questions) : IsStr(generated_questions[i])
    /\ HasWord(user_prompt)
       \/ \E i \in 1..Len(generated_questions) : HasWord(generated_questions[i])

SimsFor(user_prompt, generated_questions) ==
    IF UsesVectorizer(user_prompt, generated_questions)
    THEN SimVectors(Len(generated_questions))
    ELSE {<<>>}

\* api.py 239-240: generate_question_variations, then select_best_question
SelectQuestion(r, resp) ==
    /\ call = NoCall
    /\ epc[r] = "checked"
    /\ app = "api"
    /\ LET user_prompt == form[r].user_prompt
           generated_questions ==
               GenerateQuestionVariations(user_prompt, DefaultCount, resp).value
       IN  \E sims \in SimsFor(user_prompt, generated_questions) :
             LET best == SelectBestQuestion(user_prompt, generated_questions, sims)
             IN  IF best.kind = "raise"
                 THEN /\ epc' = [epc EXCEPT ![r] = "crashed"]
                      /\ eexception' = [eexception EXCEPT ![r] = best.exc]
                      /\ best_question' = best_question
                 ELSE /\ epc' = [epc EXCEPT ![r] = "selected"]
                      /\ best_question' = [best_question EXCEPT ![r] = best.value]
                      /\ eexception' = eexception
    /\ calls_raised' = [calls_raised EXCEPT ![r] = (resp = CallRaises)]
    /\ UNCHANGED <<tests_collection, form, call, configured, app>>
    /\ UNCHANGED <<pvars, wvars, svars, rvars, lvars>>

\* api.py 242-252 / utils/ai_grader.py 297-315: generate_auto_materials,
\* build the document, insert_one, redirect
CreateTest(r, resp) ==
    /\ call = NoCall
    /\ \/ epc[r] = "selected" /\ app = "api"
       \/ epc[r] = "checked" /\ app = "ai_grader"
    /\ LET h    == app
           desc == IF h = "api" THEN best_question[r] ELSE form[r].user_prompt
           auto_materials == GenerateAutoMaterials(h, desc, configured, resp)
       IN  IF auto_materials.kind = "raise"
           THEN /\ epc' = [epc EXCEPT ![r] = "crashed"]
                /\ eexception' = [eexception EXCEPT ![r] = auto_materials.exc]
                /\ tests_collection' = tests_collection
                /\ calls_raised' = calls_raised
           ELSE /\ epc' = [epc EXCEPT ![r] = "done"]
                /\ tests_collection' = Append(tests_collection,
                     [access_code |-> form[r].code,
                      user_prompt |-> IF h = "api" THEN form[r].user_prompt
                                      ELSE NoneValue,
                      problem_description |-> desc,
                      test_cases_code |-> auto_materials.value.tests,
                      scenario |-> auto_materials.value.scenario,
                      by |-> r])
                /\ eexception' = eexception
                /\ calls_raised' = [calls_raised EXCEPT ![r] =
                      calls_raised[r]
                      /\ (resp = CallRaises \/ (h = "ai_grader" /\ ~configured))]
    /\ UNCHANGED <<form, best_question, call, configured, app>>
    /\ UNCHANGED <<pvars, wvars, svars, rvars, lvars>>

\* ---- the generators called directly ----
\* What a generator returns depends on its arguments and on the backend's
\* answer only, so direct calls are made from the initial state.
NoRequest == \A r \in EduThreads : epc[r] = "idle"

CallGenerateQuestionVariations(user_prompt, count, resp) ==
    /\ call = NoCall /\ NoRequest
    /\ call' = [fn |-> "generate_question_variations",
                user_prompt |-> user_prompt, count |-> count, resp |-> resp,
                result |-> GenerateQuestionVariations(user_prompt, count, resp)]
    /\ UNCHANGED <<tests_collection, epc, form, best_question, calls_raised,
                   eexception, configured, app>>
    /\ UNCHANGED <<pvars, wvars, svars, rvars, lvars>>

\* candidate lists: what the model may send and the placeholders
CandidateLists(user_prompt) ==
    SeqsUpTo(ModelEntries \cup {ErrorPlaceholder(user_prompt)}, MaxQuestions)

CallSelectBestQuestion(user_prompt, generated_questions, sims) ==
    /\ call = NoCall /\ NoRequest
    /\ call' = [fn |-> "select_best_question",
                user_prompt |-> user_prompt,
                generated_questions |-> generated_questions, sims |-> sims,
                result |-> SelectBestQuestion(user_prompt, generated_questions, sims)]
    /\ UNCHANGED <<tests_collection, epc, form, best_question, calls_raised,
                   eexception, configured, app>>
    /\ UNCHANGED <<pvars, wvars, svars, rvars, lvars>>

CallGenerateAutoMaterials(problem_description, resp) ==
    /\ call = NoCall /\ NoRequest
    /\ call' = [fn |-> "generate_auto_materials",
                problem_description |-> problem_description, resp |-> resp,
                result |-> GenerateAutoMaterials(app, problem_description,
                                                 configured, resp)]
    /\ UNCHANGED <<tests_collection, epc, form, best_question, calls_raised,
                   eexception, configured, app>>
    /\ UNCHANGED <<pvars, wvars, svars, rvars, lvars>>

CallGetLlmFeedback(resp, score, total_tests, passed) ==
    /\ call = NoCall /\ NoRequest
    /\ call' = [fn |-> "get_llm_feedback", resp |-> resp, score |-> score,
                total_tests |-> total_tests, passed |-> passed,
                result |-> GetLlmFeedback(configured, resp, score,
                                          total_tests, passed)]
    /\ UNCHANGED <<tests_collection, epc, form, best_question, calls_raised,
                   eexception, configured, app>>
    /\ UNCHANGED <<pvars, wvars, svars, rvars, lvars>>

\* the value returned is what _async_ai stores as evaluation.complexity
\*                               (api.py 204-208, utils/ai_grader.py 270-273)
CallEstimateTimeSpaceComplexity(resp) ==
    /\ call = NoCall /\ NoRequest
    /\ call' = [fn |-> "estimate_time_space_complexity", resp |-> resp,
                result |-> EstimateTimeSpaceComplexity(configured, resp)]
    /\ UNCHANGED <<tests_collection, epc, form, best_question, calls_raised,
                   eexception, configured, app>>
    /\ UNCHANGED <<pvars, wvars, svars, rvars, lvars>>

\* ------------------------------------------------------------------------
\* The error-log flow: utils/logic.py (monitor_file_content_logic,
\* check_fix_logic, confirm_delete_logic, update_log_logic) and
\* manual_fix_runner.py (log_error, check_fixes) on the one logs collection
\* ------------------------------------------------------------------------
\* The collection holds at most one log: "a1" is the only id insert_one
\* hands out, once.  "b2" is a well-formed id of no log, "zz" is malformed.
LogIdInputs == {"a1", "b2", "zz"}

IsObjectIdOfAnything(s) == TRUE
\* ObjectId(log_id_str) does not raise
IsObjectId(s) == s \in {"a1", "b2"}

NoLog     == [none |-> TRUE]
NoCheck   == [none |-> TRUE]
NoConfirm == [none |-> TRUE]
NoReturn  == [fn |-> "<none>"]

\* what a monitored or re-run script does: it ends, with an exit status and
\* a stderr that is empty, white space only, or a message
StderrTexts  == {<<>>, <<" ">>, <<"e">>}
LogProcesses ==
    {[seconds |-> 1, terminates |-> TRUE, returncode |-> rc, stdout |-> <<>>,
      stderr |-> err] : rc \in {0, 1}, err \in StderrTexts}

\* `not error_log` / `if current_error`: None and "" are falsy
Falsy(value) == value = ReturnNone \/ value = ReturnStr(<<>>)

\* the uploaded script, and the code an educator sends as a fix
FileContents == {"c0"}
NewCodes     == {"c1", "c2"}

\* confirmation.lower()
Confirmations == {"yes", "YES", "no", "maybe"}
Lower(c) == IF c = "YES" THEN "yes" ELSE c

\* what the model answers verify_fix_with_gemini; "<raises>" is a failing call
VerdictTexts == {"yes", "Yes.", "no", "<raises>"}
\* "yes" in response.text.strip().lower(), False when the call raises
\*                                                (utils/ai_fixer.py 42-53)
VerifyFixWithGemini(text) == text \in {"yes", "Yes."}

\* the record of a completed call: its arguments, what it returned, and
\* the run and the verdict it was based on (returncode -1: nothing was run)
Return(fn, log_id, result, proc, verdict) ==
    [fn |-> fn, log_id |-> log_id, result |-> result,
     returncode |-> proc.returncode, stderr |-> proc.stderr, verdict |-> verdict]
NoRun == [returncode |-> -1, stderr |-> <<>>]

\* monitor_file_content_logic(file_content)        (utils/logic.py 24-52)
MonitorFileContent(file_content, proc) ==
    /\ LET error_log == Classify(proc)
       IN  IF Falsy(error_log)
           THEN /\ ret' = Return("monitor_file_content_logic", "", [status |-> "ok"],
                                 proc, "none")
                /\ UNCHANGED <<log, issued>>
           ELSE /\ ~issued
                /\ log' = [file_path |-> "temp_file_path",
                           error_message |-> error_log.text,
                           original_code |-> file_content,
                           status |-> "unresolved", new_code |-> None]
                /\ issued' = TRUE
                /\ ret' = Return("monitor_file_content_logic", "",
                                 [status |-> "error_logged", log_id |-> "a1"],
                                 proc, "none")
    /\ UNCHANGED <<chk, cfm, verified_code>>
    /\ UNCHANGED <<pvars, wvars, svars, rvars, evars>>

\* update_log_logic(log_id, new_code)            (utils/logic.py 147-165)
UpdateLog(log_id, new_code) ==
    /\ IF ~IsObjectId(log_id)
       THEN /\ ret' = Return("update_log_logic", log_id,
                             [error |-> "Invalid log_id"], NoRun, "none")
            /\ UNCHANGED log
       ELSE IF log_id # "a1" \/ log = NoLog
       THEN /\ ret' = Return("update_log_logic", log_id,
                             [error |-> "Log not found"], NoRun, "none")
            /\ UNCHANGED log
       ELSE /\ log' = [log EXCEPT !.new_code = new_code, !.status = "fix_attempted"]
            /\ ret' = Return("update_log_logic", log_id,
                             [status |-> "fix_attempted", log_id |-> log_id],
                             NoRun, "none")
    /\ UNCHANGED <<issued, chk, cfm, verified_code>>
    /\ UNCHANGED <<pvars, wvars, svars, rvars, evars>>

\* check_fix_logic(log_id_str) up to find_one and the choice of the code to
\* test                                            (utils/logic.py 55-66)
CheckFixRead(log_id) ==
    /\ chk = NoCheck
    /\ IF ~IsObjectId(log_id)
       THEN /\ ret' = Return("check_fix_logic", log_id,
                             [status |-> "error", message |-> "Invalid log ID format."],
                             NoRun, "none")
            /\ UNCHANGED chk
       ELSE IF log_id # "a1" \/ log = NoLog
       THEN /\ ret' = Return("check_fix_logic", log_id,
                             [status |-> "not_found", message |-> "Log not found."],
                             NoRun, "none")
            /\ UNCHANGED chk
       ELSE /\ chk' = [log_id |-> log_id, code_to_test |-> log.new_code,
                       original_code |-> log.original_code]
            /\ UNCHANGED ret
    /\ UNCHANGED <<log, issued, cfm, verified_code>>
    /\ UNCHANGED <<pvars, wvars, svars, rvars, evars>>

\* check_fix_logic from the rerun to its return: run_script, the test of
\* current_error, verify_fix_with_gemini, update_one   (utils/logic.py 68-111)
CheckFixFinish(proc, verdict_text) ==
    /\ chk # NoCheck
    /\ chk' = NoCheck
    /\ LET current_error == Classify(proc)
           current_code  == IF chk.code_to_test # None THEN chk.code_to_test
                            ELSE chk.original_code
           is_valid_fix  == VerifyFixWithGemini(verdict_text)
           new_status    == IF is_valid_fix THEN "fix_verified_pending_confirmation"
                            ELSE "verification_failed"
       IN  IF ~Falsy(current_error)
           THEN /\ ret' = Return("check_fix_logic", chk.log_id,
                                 [status |-> "still_broken",
                                  new_error |-> current_error.text], proc, "none")
                /\ UNCHANGED <<log, verified_code>>
           ELSE /\ log' = IF log = NoLog THEN log
                          ELSE [log EXCEPT !.status = new_status]
                /\ verified_code' = IF log # NoLog /\ is_valid_fix THEN current_code
                                    ELSE verified_code
                /\ ret' = Return("check_fix_logic", chk.log_id,
                                 [status |-> new_status], proc,
                                 IF is_valid_fix THEN "yes" ELSE "no")
    /\ UNCHANGED <<issued, cfm>>
    /\ UNCHANGED <<pvars, wvars, svars, rvars, evars>>

\* confirm_delete_logic(log_id_str, confirmation) up to the status test
\*                                              (utils/logic.py 114-131)
ConfirmRead(log_id, confirmation) ==
    /\ cfm = NoConfirm
    /\ IF Lower(confirmation) \notin {"yes", "no"}
       THEN /\ ret' = Return("confirm_delete_logic", log_id,
                             [status |-> "error",
                              message |-> "Confirmation must be 'yes' or 'no'."],
                             NoRun, "none")
            /\ UNCHANGED cfm
       ELSE IF ~IsObjectId(log_id)
       THEN /\ ret' = Return("confirm_delete_logic", log_id,
                             [status |-> "error", message |-> "Invalid log ID format."],
                             NoRun, "none")
            /\ UNCHANGED cfm
       ELSE IF log_id # "a1" \/ log = NoLog
       THEN /\ ret' = Return("confirm_delete_logic", log_id,
                             [status |-> "error", message |-> "Log not found."],
                             NoRun, "none")
            /\ UNCHANGED cfm
       ELSE IF log.status # "fix_verified_pending_confirmation"
       THEN /\ ret' = Return("confirm_delete_logic", log_id,
                             [status |-> "blocked",
                              message |-> "Cannot delete log."],
                             NoRun, "none")
            /\ UNCHANGED cfm
       ELSE /\ cfm' = [log_id |-> log_id, confirmation |-> Lower(confirmation)]
            /\ UNCHANGED ret
    /\ UNCHANGED <<log, issued, chk, verified_code>>
    /\ UNCHANGED <<pvars, wvars, svars, rvars, evars>>

\* confirm_delete_logic from the test of the confirmation to its return:
\* update_one on "no", delete_one on "yes"      (utils/logic.py 133-144)
ConfirmWrite ==
    /\ cfm # NoConfirm
    /\ cfm' = NoConfirm
    /\ IF cfm.confirmation = "no"
       THEN /\ log' = IF log = NoLog THEN log ELSE [log EXCEPT !.status = "unresolved"]
            /\ ret' = Return("confirm_delete_logic", cfm.log_id,
                             [status |-> "deletion_cancelled",
                              message |-> "Log was not deleted."],
                             NoRun, "none")
       ELSE /\ log' = NoLog
            /\ ret' = Return("confirm_delete_logic", cfm.log_id,
                             IF log # NoLog
                             THEN [status |-> "deleted",
                                   message |-> "Log deleted successfully."]
                             ELSE [status |-> "error",
                                   message |-> "Log could not be deleted. It may have already been removed."],
                             NoRun, "none")
    /\ UNCHANGED <<issued, chk, verified_code>>
    /\ UNCHANGED <<pvars, wvars, svars, rvars, evars>>

\* log_error(script_path) of the command line tool: the run is one that
\* ends within the timeout               (manual_fix_runner.py 22-48)
LogError(path_exists, proc) ==
    /\ LET error_log == IF path_exists THEN Classify(proc) ELSE MissingFileMessage
           run       == IF path_exists THEN proc ELSE NoRun
       IN  IF Falsy(error_log)
           THEN /\ ret' = Return("log_error", "", [status |-> "Success"], run, "none")
                /\ UNCHANGED <<log, issued>>
           ELSE IF ~path_exists
           THEN /\ ret' = Return("log_error", "", [status |-> "FileNotFoundError"],
                                 run, "none")
                /\ UNCHANGED <<log, issued>>
           ELSE IF log # NoLog /\ log.file_path = "script_path"
                   /\ log.status = "unresolved"
           THEN /\ ret' = Return("log_error", "", [status |-> "already logged"],
                                 run, "none")
                /\ UNCHANGED <<log, issued>>
           ELSE /\ ~issued
                /\ log' = [file_path |-> "script_path",
                           error_message |-> error_log.text,
                           original_code |-> "c0",
                           status |-> "unresolved", new_code |-> None]
                /\ issued' = TRUE
                /\ ret' = Return("log_error", "", [status |-> "Logged"], run, "none")
    /\ UNCHANGED <<chk, cfm, verified_code>>
    /\ UNCHANGED <<pvars, wvars, svars, rvars, evars>>

\* check_fixes() of the command line tool, over the one log
\*                                       (manual_fix_runner.py 50-91)
CheckFixes(path_exists, proc, verdict_text) ==
    /\ IF log = NoLog \/ log.status \notin {"unresolved", "verification_failed"}
       THEN /\ ret' = Return("check_fixes", "", [status |-> "No unresolved logs"],
                             NoRun, "none")
            /\ UNCHANGED log
       ELSE IF ~path_exists
       THEN /\ ret' = Return("check_fixes", "a1", [status |-> "File not found"],
                             NoRun, "none")
            /\ UNCHANGED log
       ELSE IF ~Falsy(Classify(proc))
       THEN /\ ret' = Return("check_fixes", "a1", [status |-> "Fix not successful"],
                             proc, "none")
            /\ UNCHANGED log
       ELSE IF VerifyFixWithGemini(verdict_text)
       THEN /\ log' = NoLog
            /\ ret' = Return("check_fixes", "a1",
                             [status |-> "AI verification successful"], proc, "yes")
       ELSE /\ log' = [log EXCEPT !.status = "verification_failed"]
            /\ ret' = Return("check_fixes", "a1",
                             [status |-> "AI verification failed"], proc, "no")
    /\ UNCHANGED <<issued, chk, cfm, verified_code>>
    /\ UNCHANGED <<pvars, wvars, svars, rvars, evars>>


\* ------------------------------------------------------------------------
\* Initial states and specifications
\* ------------------------------------------------------------------------
PipelineIdle ==
    /\ handler = "api"
    /\ pc = "idle"
    /\ exception = None
    /\ temp_files = {}
    /\ hangs = FALSE
    /\ output = <<>>
    /\ test_results = NoResult
    /\ submission = NoDoc
    /\ apc = "none"

\* GEMINI_MODEL = GeminiWrapper(api_key=os.getenv("GEMINI_API_KEY"))  (line 57)
WrapperConstructed(key) ==
    /\ api_key = key
    /\ active_model = None
    /\ disabled = DisabledFor(key)
    /\ tpc = [t \in Threads |-> "idle"]
    /\ model_idx = [t \in Threads |-> 1]
    /\ last_error = [t \in Threads |-> NoError]
    /\ requested = [t \in Threads |-> <<>>]
    /\ outcome = [t \in Threads |-> NoOutcome]
    /\ pins = <<>>
    /\ pins_at_start = [t \in Threads |-> 0]

SanitizerIdle(text) ==
    /\ source_code = text
    /\ sanitized = NotRun
    /\ fell_back = FALSE

ScriptIdle ==
    /\ rs_module = "manual_fix_runner"
    /\ rs_pc = "idle"
    /\ rs_proc = CantOpenFile
    /\ rs_result = NoValue
    /\ rs_exception = None

\* no request yet, nothing persisted
EducatorIdle(deployed, conf) ==
    /\ tests_collection = <<>>
    /\ epc = [r \in EduThreads |-> "idle"]
    /\ form = [r \in EduThreads |-> NoForm]
    /\ best_question = [r \in EduThreads |-> NoneValue]
    /\ calls_raised = [r \in EduThreads |-> TRUE]
    /\ eexception = [r \in EduThreads |-> None]
    /\ app = deployed
    /\ configured = conf
    /\ call = NoCall

\* an empty logs collection, no call in progress
LogIdle ==
    /\ log = NoLog
    /\ issued = FALSE
    /\ chk = NoCheck
    /\ cfm = NoConfirm
    /\ ret = NoReturn
    /\ verified_code = None

OthersIdle ==
    /\ ScriptIdle
    /\ EducatorIdle("api", TRUE)
    /\ LogIdle

Init ==
    /\ PipelineIdle
    /\ WrapperConstructed(None)
    /\ SanitizerIdle(<<>>)
    /\ OthersIdle

Next ==
    \/ \E h \in Handlers, test_found \in BOOLEAN, student_code \in {"None", "", "code"} :
          SubmitCode(h, test_found, student_code)
    \/ RunTestsStep
    \/ PersistSubmission
    \/ \E fb \in FeedbackValues : AsyncFeedback(fb)
    \/ \E c \in ComplexityValues : AsyncComplexity(c)
    \/ \E fb \in FeedbackValues, c \in ComplexityValues : AsyncBoth(fb, c)

Spec == Init /\ [][Next]_vars

WrapperInit ==
    /\ PipelineIdle
    /\ \E key \in ApiKeys : WrapperConstructed(key)
    /\ SanitizerIdle(<<>>)
    /\ OthersIdle

WrapperNext ==
    \E t \in Threads :
        \/ GenerateContent(t)
        \/ \E ok \in BOOLEAN : DirectResponse(t, ok)
        \/ \E ok \in BOOLEAN : ProbeCandidate(t, ok)
        \/ RaiseLastError(t)
        \/ CallEnds(t)

WrapperSpec == WrapperInit /\ [][WrapperNext]_vars

SanitizerInit ==
    /\ PipelineIdle
    /\ WrapperConstructed(None)
    /\ \E text \in Sources : SanitizerIdle(text)
    /\ OthersIdle

SanitizerNext == Sanitize

SanitizerSpec == SanitizerInit /\ [][SanitizerNext]_vars

ScriptInit ==
    /\ PipelineIdle
    /\ WrapperConstructed(None)
    /\ SanitizerIdle(<<>>)
    /\ ScriptIdle
    /\ EducatorIdle("api", TRUE)
    /\ LogIdle

ScriptNext ==
    \/ \E m \in RunScriptModules, path_exists \in BOOLEAN, proc \in Processes :
          RunScript(m, path_exists, proc)
    \/ ScriptExits
    \/ ScriptTimesOut

ScriptSpec == ScriptInit /\ [][ScriptNext]_vars

EducatorInit ==
    /\ PipelineIdle
    /\ WrapperConstructed(None)
    /\ SanitizerIdle(<<>>)
    /\ ScriptIdle
    /\ \/ EducatorIdle("api", TRUE)
       \/ \E conf \in BOOLEAN : EducatorIdle("ai_grader", conf)
    /\ LogIdle

EducatorNext ==
    \/ \E r \in EduThreads, user_prompt \in Topics, code \in Codes :
          PostForm(r, user_prompt, code)
    \/ \E r \in EduThreads, resp \in Responses(VariationBodies) :
          SelectQuestion(r, resp)
    \/ \E r \in EduThreads, resp \in Responses(MaterialBodies) :
          CreateTest(r, resp)
    \/ \E user_prompt \in Topics, count \in 0..MaxCount,
          resp \in Responses(VariationBodies) :
          CallGenerateQuestionVariations(user_prompt, count, resp)
    \/ \E user_prompt \in Topics :
          \E generated_questions \in CandidateLists(user_prompt) :
             \E sims \in SimVectors(Len(generated_questions)) :
                CallSelectBestQuestion(user_prompt, generated_questions, sims)
    \/ \E problem_description \in Topics, resp \in Responses(MaterialBodies) :
          CallGenerateAutoMaterials(problem_description, resp)
    \/ \E resp \in Responses(FeedbackBodies), score \in Scores,
          total_tests \in Totals, passed \in PassedFlags :
          CallGetLlmFeedback(resp, score, total_tests, passed)
    \/ \E resp \in Responses(ComplexityBodies) :
          CallEstimateTimeSpaceComplexity(resp)

EducatorSpec == EducatorInit /\ [][EducatorNext]_vars

LogInit ==
    /\ PipelineIdle
    /\ WrapperConstructed(None)
    /\ SanitizerIdle(<<>>)
    /\ ScriptIdle
    /\ EducatorIdle("api", TRUE)
    /\ LogIdle

LogNext ==
    \/ \E file_content \in FileContents, proc \in LogProcesses :
          MonitorFileContent(file_content, proc)
    \/ \E log_id \in LogIdInputs, new_code \in NewCodes : UpdateLog(log_id, new_code)
    \/ \E log_id \in LogIdInputs : CheckFixRead(log_id)
    \/ \E proc \in LogProcesses, verdict_text \in VerdictTexts :
          CheckFixFinish(proc, verdict_text)
    \/ \E log_id \in LogIdInputs, confirmation \in Confirmations :
          ConfirmRead(log_id, confirmation)
    \/ ConfirmWrite
    \/ \E path_exists \in BOOLEAN, proc \in LogProcesses : LogError(path_exists, proc)
    \/ \E path_exists \in BOOLEAN, proc \in LogProcesses,
          verdict_text \in VerdictTexts :
          CheckFixes(path_exists, proc, verdict_text)

LogSpec == LogInit /\ [][LogNext]_vars


\* ========================================================================
\* Claims
\* ========================================================================
AllRunTestsPcs == InRunTests \cup {"run_tests_none", "tempdir_none"}

\* C1: every persisted EvaluationResult has
\*     pass == (failed_tests_count == 0 and total_tests > 0), for every result
\*     of run_tests_on_code; a run that collects no test is never stored as
\*     passed.  (Fails for ai_grader.submit_code.)
C1_PassIffNoFailuresAndSomeTests ==
    submission # NoDoc =>
        (submission.pass <=>
            (test_results.failed_tests_count = 0 /\ test_results.total_tests > 0))

\* C2: every call of run_tests_on_code eventually returns, also when the
\*     submitted code never terminates (the subprocess is cancelled after a
\*     fixed budget): a call that has not ended can always take a next step.
C2_RunTestsCallCanAlwaysProceed ==
    pc \in AllRunTestsPcs => ENABLED RunTestsStep

\* C3: whatever text the test subprocess prints, the handler completes
\*     without an unhandled exception: the request never dies of the
\*     exception raised while parsing the output.
C3_HandlerSurvivesAnyOutput ==
    ~(pc = "crashed" /\ exception = GroupOfNone)

\* C4: the enrichment thread changes the Submission once, setting ai_feedback
\*     and complexity together: a reader sees both null or both set.
C4_AIFieldsSetTogether ==
    submission # NoDoc =>
        ((submission.ai_feedback = None) <=> (submission.complexity = None))

\* C5: a call of an unresolved wrapper that sees candidates 1..k-1 fail and
\*     candidate k succeed tried them in list order, returns the response of
\*     candidate k and pins k; every call started after a pin was made sends
\*     exactly one request, to the pinned candidate.
C5_PinnedCandidateServesLaterCalls ==
    \A t \in Threads :
        /\ (tpc[t] = "returned" /\ outcome[t].via = "probe") =>
              LET k == Len(requested[t])
              IN  /\ k >= 1
                  /\ requested[t] = SubSeq(MODEL_CANDIDATES, 1, k)
                  /\ outcome[t].model = MODEL_CANDIDATES[k]
                  /\ \E j \in (pins_at_start[t] + 1)..Len(pins) :
                        pins[j] = MODEL_CANDIDATES[k]
        /\ (tpc[t] \in {"direct", "returned", "raised"} /\ pins_at_start[t] >= 1) =>
              \A j \in 1..pins_at_start[t] : requested[t] = <<pins[j]>>

\* C6: once a model identifier is pinned it never changes and is never
\*     cleared, in every interleaving of generate_content calls.
C6_PinNeverChanges ==
    [][active_model # None => active_model' = active_model]_vars

\* C7: a wrapper constructed with a missing or placeholder key is disabled
\*     for good: every call raises the configuration error, no candidate is
\*     ever requested, and the wrapper never becomes unresolved or pinned.
C7_DisabledWrapperStaysDisabled ==
    api_key \in {None, "", "YOUR_API_KEY_HERE"} =>
        /\ disabled
        /\ active_model = None
        /\ pins = <<>>
        /\ \A t \in Threads :
              /\ requested[t] = <<>>
              /\ tpc[t] \in {"idle", "raised"}
              /\ tpc[t] = "raised" => outcome[t] = ConfigError

C7_Witness ==
    /\ api_key = "YOUR_API_KEY_HERE"
    /\ \E t \in Threads : tpc[t] = "raised" /\ outcome[t] = ConfigError

\* C8: a call of an unresolved wrapper that sees every candidate fail raises
\*     the error of the last candidate of the list and changes no pin on its
\*     way; a call that starts on an unresolved wrapper starts probing at the
\*     first candidate.
C8_AllFailRaisesLastErrorAndPinsNothing ==
    [][\A t \in Threads :
          /\ (tpc[t] = "exhausted" /\ tpc'[t] = "raised") =>
                /\ requested[t] = MODEL_CANDIDATES
                /\ outcome'[t] = ErrorOf(MODEL_CANDIDATES[Len(MODEL_CANDIDATES)])
                /\ active_model' = active_model
                /\ pins' = pins
          /\ (tpc[t] = "probing" /\ requested'[t] # requested[t]
                                  /\ tpc'[t] \in {"probing", "exhausted"}) =>
                /\ active_model' = active_model
                /\ pins' = pins
          /\ (tpc[t] = "idle" /\ tpc'[t] # "idle" /\ ~disabled /\ active_model = None) =>
                /\ tpc'[t] = "probing"
                /\ model_idx'[t] = 1
                /\ requested'[t] = <<>>
      ]_vars

C8_Witness ==
    /\ active_model = None
    /\ \E t \in Threads :
          /\ tpc[t] = "raised"
          /\ requested[t] = MODEL_CANDIDATES
          /\ outcome[t] = ErrorOf(MODEL_CANDIDATES[Len(MODEL_CANDIDATES)])

IsDeclaration(chunk) == chunk.kind \in AllowedKinds

\* C9: for all submitted source text, the top-level statements of the
\*     sanitizer's output are exactly the import, function, async function
\*     and class definitions of the input, in their original order.
C9_OutputHoldsOnlyDeclarations ==
    (sanitized # NotRun /\ ~ParseFails(sanitized)) =>
        sanitized = SelectSeq(source_code, IsDeclaration)

\* C10: after a run_tests_on_code call has ended, by return or by an
\*      exception, its temporary directory, submission.py and
\*      test_submission.py no longer exist.
C10_TempDirRemovedAfterCall ==
    pc \notin AllRunTestsPcs => temp_files = {}

C10_Witness ==
    /\ pc = "crashed"
    /\ exception = GroupOfNone
    /\ output # <<>>
    /\ temp_files = {}

\* C11: run_script classifies every run of an existing script into exactly
\* one of three outcomes and never raises: a child that ends within the
\* 10-second budget with status 0 gives None, one that ends within the
\* budget with a nonzero status gives the captured stderr text, and one
\* that exceeds the budget gives a non-null timeout message holding the
\* captured stdout, whatever was captured (nothing included); a call that
\* is still waiting for its child can always go on to one of the three.
C11_OverBudget == ~rs_proc.terminates \/ rs_proc.seconds > Timeout

C11_RunScriptThreeOutcomes ==
    /\ rs_pc # "raised"
    /\ rs_pc = "running" => ENABLED (ScriptExits \/ ScriptTimesOut)
    /\ (rs_pc = "returned" /\ rs_result # MissingFileMessage) =>
          IF C11_OverBudget
          THEN rs_result = TimeoutMessage(Strip(rs_proc.stdout))
          ELSE IF rs_proc.returncode = 0
               THEN rs_result = ReturnNone
               ELSE rs_result = ReturnStr(Strip(rs_proc.stderr))

\* ---- what the output says, read off the text directly ----
\* the last line of the output that mentions passed, failed or error
C12_Mentions(line) ==
    \E i \in 1..Len(line) :
        \/ line[i] \in {"passed", "failed", "error", "errors"}
        \/ line[i] \in {"xpassed", "xfailed", "test_error"}

C12_LastLine ==
    LET idx == {i \in 1..Len(output) : C12_Mentions(output[i])}
    IN  IF idx = {} THEN <<>>
        ELSE output[CHOOSE i \in idx : \A j \in idx : j <= i]

\* the integer written before the word on that line, 0 when the line has
\* no such word
C12_Written(words) ==
    LET line == C12_LastLine
        at   == {i \in 2..Len(line) : line[i] \in words /\ IsDigits(line[i - 1])}
    IN  IF at = {} THEN 0
        ELSE IntOf(line[(CHOOSE i \in at : \A j \in at : i <= j) - 1])

C12_Passed == C12_Written({"passed"})
C12_Failed == C12_Written({"failed"})
C12_Errors == C12_Written({"error", "errors"})

\* C12: the counts run_tests_on_code reports come from the last output line
\* that contains passed, failed or error: they are the integers written
\* before those words on that line, 0 for a word the line lacks, and the
\* total is their sum; lines before that one change nothing.
C12_CountsFromLastSummaryLine ==
    test_results # NoResult =>
        /\ test_results.total_tests = C12_Passed + C12_Failed + C12_Errors
        /\ test_results.total_tests > 0 =>
              /\ test_results.passed_tests = C12_Passed
              /\ test_results.failed_tests_count = C12_Failed + C12_Errors

\* a returned result whose output has an earlier summary with other counts
C12_Witness ==
    /\ test_results # NoResult
    /\ Len(output) = 2
    /\ output[1] = <<"3", "passed">>
    /\ output[2] = <<"1", "failed", "1", "passed", "1", "error">>
    /\ test_results.total_tests = 3

\* C13 (as stated): for a parsed total above 0 the score is 100 * passed /
\* total rounded to two decimals, between 0 and 100 and equal to 100 exactly
\* when failed + errors = 0; passed_tests is passed and failed_tests_count
\* is failed + errors; "3 passed, 2 failed" gives total 5, score 60.0 and
\* failed_tests_count 2.  (Scores are in hundredths of a point.)
C13_Rounded ==
    LET d == (test_results.score * test_results.total_tests) - (10000 * C12_Passed)
    IN  2 * d <= test_results.total_tests /\ -2 * d <= test_results.total_tests

C13_Example ==
    C12_LastLine = <<"3", "passed", "2", "failed">> =>
        /\ test_results.total_tests = 5
        /\ test_results.score = 6000
        /\ test_results.failed_tests_count = 2

C13_ScoreHundredIffNoFailures ==
    (test_results # NoResult /\ test_results.total_tests > 0) =>
        /\ C13_Rounded
        /\ test_results.score >= 0 /\ test_results.score <= 10000
        /\ test_results.score = 10000 <=> (C12_Failed + C12_Errors = 0)
        /\ test_results.passed_tests = C12_Passed
        /\ test_results.failed_tests_count = C12_Failed + C12_Errors
        /\ C13_Example

\* C13 (amended): as above, except that the score is 100 whenever failed +
\* errors = 0, and a score of 100 with failures present happens only
\* through the rounding, when the failures are at most 1 in 20000 of total.
C13_ScoreIsRoundedPercentage ==
    (test_results # NoResult /\ test_results.total_tests > 0) =>
        /\ C13_Rounded
        /\ test_results.score >= 0 /\ test_results.score <= 10000
        /\ (C12_Failed + C12_Errors = 0) => test_results.score = 10000
        /\ test_results.score = 10000 =>
              20000 * (C12_Failed + C12_Errors) <= test_results.total_tests
        /\ test_results.passed_tests = C12_Passed
        /\ test_results.failed_tests_count = C12_Failed + C12_Errors
        /\ C13_Example

C13_Witness ==
    /\ test_results # NoResult
    /\ output = <<<<"3", "passed", "2", "failed">>>>
    /\ test_results.score = 6000

\* C14: whenever the parsed total is 0, the absence of any summary line
\* included, the result has total_tests 0, score 0, failed_tests_count 0 and
\* a tests list of exactly one synthetic failed outcome whose error says
\* "No tests collected", also when the output has lines that begin with
\* FAILED or PASSED.
C14_ZeroTotalReportsNoTestsCollected ==
    (test_results # NoResult /\ C12_Passed + C12_Failed + C12_Errors = 0) =>
        /\ test_results.total_tests = 0
        /\ test_results.score = 0
        /\ test_results.failed_tests_count = 0
        /\ Len(test_results.tests) = 1
        /\ test_results.tests[1].status = "failed"
        /\ test_results.tests[1].error = <<"No", "tests", "collected">>

\* no summary line at all, and marker lines in the output
C14_Witness ==
    /\ test_results # NoResult
    /\ output = <<<<"FAILED", "test_a">>, <<"PASSED", "test_b">>>>
    /\ test_results.total_tests = 0

\* C15: generate_auto_materials never raises to its caller: whatever the
\* description and whatever the backend does (not configured, raising on
\* the call, empty text, non-JSON text, JSON that is not an object, an
\* object with missing keys) it returns a dict with a scenario and a tests
\* entry, so no educator_create_test request dies inside it.
C15_GenerateAutoMaterialsNeverRaises ==
    /\ call.fn = "generate_auto_materials" => call.result.kind = "return"
    /\ app = "ai_grader" => \A r \in EduThreads : epc[r] # "crashed"

\* ---- the fallback pair and a failed generation, read off the values ----
C16_IsFallback(materials, description) ==
    /\ materials.scenario.kind = "Scenario: A real-world application for"
    /\ materials.scenario.about = description
    /\ Len(SelectSeq(materials.tests.text,
                     LAMBDA line : line = "def test_placeholder():")) = 1
    /\ \A i \in 1..Len(materials.tests.text) : materials.tests.text[i] # "def test_a():"

C16_Failed(resp) ==
    \/ resp.kind = "raises"
    \/ resp.fence = "one_line"
    \/ resp.body.json # "object"
    \/ resp.body.scenario_question.kind = "None"
    \/ resp.body.scenario_question.text = ""
    \/ resp.body.tests.kind # "text"
    \/ \A i \in 1..Len(resp.body.tests.text) : resp.body.tests.text[i] # "def test_a():"

\* C16: whenever generation fails (model unavailable, non-JSON response,
\* scenario or tests key missing or empty, tests without a test function)
\* generate_auto_materials returns exactly the fixed fallback pair, whose
\* scenario contains the description and whose tests hold the single
\* placeholder test; a response is returned as generated only when it
\* passed all checks, and its tests then contain the import of the function
\* under test, prepended when the model left it out.
C16_FallbackOrCheckedResponse ==
    call.fn = "generate_auto_materials" =>
        /\ call.result.kind = "return"
        /\ (~configured \/ C16_Failed(call.resp)) =>
              C16_IsFallback(call.result.value, call.problem_description)
        /\ ~C16_IsFallback(call.result.value, call.problem_description) =>
              /\ ~C16_Failed(call.resp)
              /\ call.result.value.scenario = call.resp.body.scenario_question
              /\ \E i \in 1..Len(call.result.value.tests.text) :
                    call.result.value.tests.text[i] = "from submission import solution"

\* C17: no two persisted ProblemSpecs have the same access code, whatever
\* the sequence and interleaving of educator_create_test requests: a
\* request whose code is already used is rejected and inserts nothing.
C17_AccessCodesUnique ==
    \A i, j \in 1..Len(tests_collection) :
        i # j => tests_collection[i].access_code # tests_collection[j].access_code

\* C18: given a topic and a candidate list with at least one entry that is
\* not an error placeholder, the value select_best_question returns is the
\* candidate of maximal similarity to the topic, the first of them when
\* several are maximal; it is always a member of the candidate list.
C18_ReturnsFirstMostSimilar ==
    (/\ call.fn = "select_best_question"
     /\ call.result.kind = "return"
     /\ \E i \in 1..Len(call.generated_questions) :
           call.generated_questions[i].kind # "Error generating question for") =>
        \E i \in 1..Len(call.generated_questions) :
            /\ call.result.value = call.generated_questions[i]
            /\ \A j \in 1..Len(call.sims) : call.sims[j] <= call.sims[i]
            /\ \A j \in 1..(i - 1) : call.sims[j] < call.sims[i]

\* two different candidates of equal, maximal similarity: the first wins
C18_Witness ==
    /\ call.fn = "select_best_question"
    /\ Len(call.generated_questions) = 2
    /\ call.generated_questions[1] # call.generated_questions[2]
    /\ call.sims = <<2, 2>>
    /\ call.result = [kind |-> "return", value |-> call.generated_questions[1]]

\* C19: select_best_question returns the topic unchanged when the candidate
\* list is empty or holds error placeholders only; so when every model call
\* of a request fails, the problem description educator_create_test stores
\* is the prompt the educator typed.
C19_FallsBackToOriginalPrompt ==
    /\ (/\ call.fn = "select_best_question"
        /\ \A i \in 1..Len(call.generated_questions) :
              call.generated_questions[i].kind = "Error generating question for") =>
          call.result = [kind |-> "return", value |-> call.user_prompt]
    /\ \A i \in 1..Len(tests_collection) :
          calls_raised[tests_collection[i].by] =>
              tests_collection[i].problem_description
                  = form[tests_collection[i].by].user_prompt

\* api.py stored a document after both of its model calls raised
C19_Witness ==
    /\ app = "api"
    /\ Len(tests_collection) = 1
    /\ calls_raised[tests_collection[1].by]
    /\ tests_collection[1].problem_description = [kind |-> "text", text |-> "sort a list"]

C20_Failed(resp) ==
    \/ resp.kind = "raises"
    \/ resp.fence = "one_line"
    \/ resp.body.json # "object"
    \/ ~resp.body.questions.present
    \/ ~resp.body.questions.is_list
    \/ Len(resp.body.questions.items) = 0

\* C20: generate_question_variations(topic, N) never raises, and on any
\* failure (wrapper disabled, model call raising, non-JSON response,
\* missing, empty or non-list questions) it returns exactly N placeholder
\* strings, each of them the error text followed by the topic and nothing
\* else.
C20_FailureGivesNPlaceholders ==
    call.fn = "generate_question_variations" =>
        /\ call.result.kind = "return"
        /\ C20_Failed(call.resp) =>
              /\ Len(call.result.value) = call.count
              /\ \A i \in 1..Len(call.result.value) :
                    call.result.value[i] = [kind |-> "Error generating question for",
                                            text |-> call.user_prompt.text]

C20_Witness ==
    /\ call.fn = "generate_question_variations"
    /\ call.count = 2
    /\ call.resp = [kind |-> "raises"]
    /\ Len(call.result.value) = 2

\* C21: neither get_llm_feedback nor estimate_time_space_complexity raises;
\* when the model is unavailable or the call errors, get_llm_feedback
\* returns the fallback text that embeds score, total_tests and passed, and
\* estimate_time_space_complexity returns the fixed estimate time O(n) /
\* space O(1); for every model response the value returned, which is the
\* value stored as complexity, is an object with a time and a space entry.
C21_FeedbackAndComplexityAlwaysWellFormed ==
    /\ call.fn = "get_llm_feedback" =>
          /\ call.result.kind = "return"
          /\ (~configured \/ call.resp.kind = "raises") =>
                /\ call.result.value.kind = "AI feedback is currently unavailable."
                /\ call.result.value.score = call.score
                /\ call.result.value.total_tests = call.total_tests
                /\ call.result.value.passed = (call.passed = "True")
    /\ call.fn = "estimate_time_space_complexity" =>
          /\ call.result.kind = "return"
          /\ (~configured \/ call.resp.kind = "raises") =>
                /\ call.result.value.time = [kind |-> "text", text |-> "O(n)"]
                /\ call.result.value.space = [kind |-> "text", text |-> "O(1)"]
          /\ call.result.value.json = "object"
          /\ call.result.value.time.kind = "text"
          /\ call.result.value.space.kind = "text"

\* C23: the count extraction is idempotent on the summary line: parsing
\* the summary line alone gives the same passed, failed-and-error and total
\* counts (and so the same score) as parsing the full output the line was
\* taken from.
C23_ReparsingSummaryGivesSameCounts ==
    test_results # NoResult =>
        LET again == ParseResult(<<C12_LastLine>>)
        IN  /\ again.total_tests = test_results.total_tests
            /\ again.passed_tests = test_results.passed_tests
            /\ again.failed_tests_count = test_results.failed_tests_count
            /\ again.score = test_results.score

\* a full output whose summary line is not its first line
C23_Witness ==
    /\ test_results # NoResult
    /\ output = <<<<"3", "passed">>, <<"1", "failed", "1", "passed">>>>
    /\ test_results.total_tests = 2

\* ---- the error-log flow ----
C22_Functions == {"check_fix_logic", "confirm_delete_logic", "update_log_logic"}
\* the step is a call that returned at its identifier checks
C22_Returns ==
    /\ ret' # ret
    /\ ret'.fn \in C22_Functions
    /\ chk' = chk
    /\ cfm' = cfm
C22_Malformed == ret'.log_id = "zz"
C22_NotStored == ret'.log_id = "b2" \/ (ret'.log_id = "a1" /\ log = NoLog)
C22_ValidConfirmation ==
    ret'.result.message # "Confirmation must be 'yes' or 'no'."
C22_Reported ==
    IF ret'.fn = "check_fix_logic"
    THEN ret'.result.status = (IF C22_Malformed THEN "error" ELSE "not_found")
    ELSE IF ret'.fn = "confirm_delete_logic"
    THEN /\ ret'.result.status = "error"
         /\ C22_ValidConfirmation =>
               ret'.result.message = (IF C22_Malformed THEN "Invalid log ID format."
                                      ELSE "Log not found.")
    ELSE /\ DOMAIN ret'.result = {"error"}
         /\ ret'.result.error = (IF C22_Malformed THEN "Invalid log_id"
                                 ELSE "Log not found")

\* C22: check_fix_logic, confirm_delete_logic and update_log_logic, called
\* with a malformed log id or with a well-formed id of no stored log, return
\* their structured error (malformed) or not-found result and leave the
\* logs collection and every call in progress as they were.
C22_BadLogIdIsReportedAndChangesNothing ==
    [][(C22_Returns /\ (C22_Malformed \/ C22_NotStored)) =>
          /\ C22_Reported
          /\ log' = log]_vars

\* a log is stored, and update_log_logic has just refused a malformed id
C22_Witness ==
    /\ log # NoLog
    /\ ret.fn = "update_log_logic"
    /\ ret.log_id = "zz"
    /\ ret.result = [error |-> "Invalid log_id"]

\* C24: a run that exited nonzero is treated as a failure by every caller,
\* whatever it wrote to stderr: monitor_file_content_logic returns
\* error_logged, check_fix_logic returns still_broken without a verdict
\* having been asked for, log_error does not report success and check_fixes
\* reports that the fix was not successful.
C24_NonzeroExitIsAFailure ==
    ret.fn # "<none>" /\ ret.returncode > 0 =>
        /\ ret.fn = "monitor_file_content_logic" => ret.result.status = "error_logged"
        /\ ret.fn = "check_fix_logic" =>
              ret.result.status = "still_broken" /\ ret.verdict = "none"
        /\ ret.fn = "log_error" => ret.result.status # "Success"
        /\ ret.fn = "check_fixes" => ret.result.status = "Fix not successful"

C25_Verified == "fix_verified_pending_confirmation"
C25_Deletes ==
    /\ ret' # ret
    /\ ret'.fn = "confirm_delete_logic"
    /\ log # NoLog
    /\ log' = NoLog
C25_BecomesVerified ==
    /\ log' # NoLog
    /\ log'.status = C25_Verified
    /\ log = NoLog \/ log.status # C25_Verified
C25_ConfirmOnOtherStatus ==
    /\ ret' # ret
    /\ ret'.fn = "confirm_delete_logic"
    /\ cfm = NoConfirm
    /\ ret'.log_id = "a1"
    /\ log # NoLog
    /\ log.status # C25_Verified
    /\ C22_ValidConfirmation
C25_UpdatesStoredLog ==
    /\ ret' # ret
    /\ ret'.fn = "update_log_logic"
    /\ "status" \in DOMAIN ret'.result

\* C25: in every run of the four operations, confirm_delete_logic deletes
\* only with confirmation yes and a log it found in status
\* fix_verified_pending_confirmation; only a check_fix_logic call whose rerun
\* exited with status 0 and whose verdict was positive puts a log in that
\* status; on every other status confirm_delete_logic returns blocked and
\* changes nothing; update_log_logic takes the log out of that status.
C25_DeletionOnlyAfterCleanVerifiedCheck ==
    [][/\ C25_Deletes => cfm # NoConfirm /\ cfm.confirmation = "yes"
       /\ cfm' # cfm /\ cfm' # NoConfirm => log.status = C25_Verified
       /\ C25_BecomesVerified =>
             /\ ret'.fn = "check_fix_logic"
             /\ ret'.returncode = 0
             /\ ret'.verdict = "yes"
       /\ C25_ConfirmOnOtherStatus =>
             ret'.result.status = "blocked" /\ log' = log
       /\ C25_UpdatesStoredLog => log' # NoLog /\ log'.status # C25_Verified]_vars

C26_CurrentCode(l) == IF l.new_code # None THEN l.new_code ELSE l.original_code

\* C26: whenever the stored log has status fix_verified_pending_confirmation,
\* its current code (new_code, or the original code when no new_code was
\* sent) is the code the verifying check_fix_logic call ran.
C26_VerifiedStatusIsOfCurrentCode ==
    log # NoLog /\ log.status = "fix_verified_pending_confirmation" =>
        C26_CurrentCode(log) = verified_code


=============================================================================
